---- MODULE Spec2Model ----
(***************************************************************************)
(* A model of generate_matrix_svg.py: the glyph sequence generator, the    *)
(* quality-dial resolver, the column layout engine and the build_svg       *)
(* entry point.                                                            *)
(*                                                                         *)
(* Numbers.  The program computes x positions in binary floating point;    *)
(* the model computes them as exact reduced fractions <<n, d>> (d > 0).    *)
(* Times (the *_begin and *_dur fields) are fixed-point integers in units  *)
(* of 1/10000 s; the phase and scale tables are in units of 1/100.         *)
(***************************************************************************)
EXTENDS Integers, Sequences, FiniteSets, TLC

VARIABLES pc, op, args, result, base_columns, prev

vars == <<pc, op, args, result, base_columns, prev>>

(***************************************************************************)
(* Bounds of the model.                                                    *)
(***************************************************************************)
MaxSeed == 77
MaxTarget == 22
MaxBaseLen == 2
NumBaseLists == 2
LevelSlack == 1
MaxRegular == 12
MaxIrregular == 26
MaxGpsSpread == 1
SvgMaxColumns == 1
SvgMaxGps == 1
DetMaxColumns == 3

(***************************************************************************)
(* Python's built-ins.                                                     *)
(***************************************************************************)
Max(a, b) == IF a >= b THEN a ELSE b

Min(a, b) == IF a <= b THEN a ELSE b

RECURSIVE GCD(_, _)
GCD(a, b) == IF b = 0 THEN a ELSE GCD(b, a % b)

Abs(a) == IF a < 0 THEN -a ELSE a

(***************************************************************************)
(* Exact fractions standing for the program's floats.                      *)
(***************************************************************************)
Rat(n, d) ==
  LET s == IF d < 0 THEN -1 ELSE 1
      g == GCD(Abs(n), Abs(d))
  IN  <<(s * n) \div g, (s * d) \div g>>

RInt(n) == <<n, 1>>

RAdd(a, b) == Rat(a[1] * b[2] + b[1] * a[2], a[2] * b[2])

RSub(a, b) == Rat(a[1] * b[2] - b[1] * a[2], a[2] * b[2])

RMul(a, b) ==
  LET g1 == GCD(Abs(a[1]), b[2])
      g2 == GCD(Abs(b[1]), a[2])
  IN  Rat((a[1] \div g1) * (b[1] \div g2), (a[2] \div g2) * (b[2] \div g1))

RDiv(a, b) == RMul(a, Rat(b[2], b[1]))

RLeq(a, b) == a[1] * b[2] <= b[1] * a[2]

RMinOf(xs) == CHOOSE m \in {xs[i] : i \in DOMAIN xs} : \A i \in DOMAIN xs : RLeq(m, xs[i])

RMaxOf(xs) == CHOOSE m \in {xs[i] : i \in DOMAIN xs} : \A i \in DOMAIN xs : RLeq(xs[i], m)

(***************************************************************************)
(* Module-level constants and tables.  A glyph is a <<text, font size>>    *)
(* pair; a character outside ASCII is written {U+hhhh}, its code point.    *)
(***************************************************************************)
BASE_CANVAS_WIDTH == 500

EDGE_MARGIN == 0

MIN_SPAN_WIDTH == BASE_CANVAS_WIDTH - 2 * EDGE_MARGIN

COLUMN_BASE_SPACING == 42

NICE_FEATURE_STEPS ==
  << "disable_font_size_animation", "disable_micro_jitter",
     "disable_per_glyph_opacity", "disable_fill_opacity_pulse",
     "disable_trail_filter", "disable_lightning" >>

MAX_NICE_LEVEL == Len(NICE_FEATURE_STEPS)

InitialBaseColumns ==
  <<
    [ x |-> <<20, 1>>,
      translate_values |-> "0,-260;0,540", translate_dur |-> 42000, translate_begin |-> -14000,
      opacity_values |-> "0.2;0.95;0.2", opacity_dur |-> 42000, opacity_begin |-> -14000,
      glyphs |-> << <<"A", 18>>, <<"{U+03A3}", 20>>, <<"7", 21>>, <<"{U+03A9}", 19>>, <<"{U+00D1}", 18>>, <<"@", 21>>, <<"Z", 23>>, <<"{U+00C9}", 19>>, <<"?", 18>>, <<"{U+03B4}", 17>>, <<"{U+221E}", 20>> >> ],
    [ x |-> <<60, 1>>,
      translate_values |-> "0,-300;0,520", translate_dur |-> 51000, translate_begin |-> -8000,
      opacity_values |-> "0.18;1;0.18", opacity_dur |-> 51000, opacity_begin |-> -8000,
      glyphs |-> << <<"{U+00DF}", 18>>, <<"M", 21>>, <<"{U+9DB4}", 22>>, <<"{U+03BB}", 19>>, <<"{U+00DC}", 18>>, <<"{U+9DB4}", 20>>, <<"Q", 23>>, <<"{U+00DF}", 19>>, <<"3", 18>>, <<"{U+03B7}", 17>>, <<"{U+2248}", 20>> >> ],
    [ x |-> <<100, 1>>,
      translate_values |-> "0,-240;0,520", translate_dur |-> 47000, translate_begin |-> -23000,
      opacity_values |-> "0.25;0.9;0.25", opacity_dur |-> 47000, opacity_begin |-> -23000,
      glyphs |-> << <<"C", 18>>, <<"S", 20>>, <<"%", 22>>, <<"{U+03A8}", 19>>, <<"{U+00CD}", 17>>, <<"5", 21>>, <<"T", 23>>, <<"{U+03C7}", 19>>, <<"8", 18>>, <<"{U+03BA}", 17>>, <<"{U+2208}", 20>> >> ],
    [ x |-> <<140, 1>>,
      translate_values |-> "0,-320;0,520", translate_dur |-> 54000, translate_begin |-> -4000,
      opacity_values |-> "0.18;0.92;0.18", opacity_dur |-> 54000, opacity_begin |-> -4000,
      glyphs |-> << <<"D", 18>>, <<"L", 21>>, <<"$", 22>>, <<"{U+03B2}", 19>>, <<"{U+00D3}", 17>>, <<"1", 21>>, <<"P", 23>>, <<"{U+039E}", 19>>, <<"6", 18>>, <<"{U+03D1}", 17>>, <<"{U+222E}", 20>> >> ],
    [ x |-> <<180, 1>>,
      translate_values |-> "0,-260;0,560", translate_dur |-> 41000, translate_begin |-> -19000,
      opacity_values |-> "0.26;0.9;0.26", opacity_dur |-> 41000, opacity_begin |-> -19000,
      glyphs |-> << <<"E", 18>>, <<"V", 21>>, <<"0", 22>>, <<"{U+0393}", 19>>, <<"{U+00DA}", 17>>, <<"2", 21>>, <<"F", 23>>, <<"{U+0396}", 19>>, <<"4", 18>>, <<"{U+03B8}", 17>>, <<"{U+221F}", 20>> >> ],
    [ x |-> <<220, 1>>,
      translate_values |-> "0,-300;0,560", translate_dur |-> 58000, translate_begin |-> -32000,
      opacity_values |-> "0.17;0.95;0.17", opacity_dur |-> 58000, opacity_begin |-> -32000,
      glyphs |-> << <<"F", 18>>, <<"X", 21>>, <<"!", 22>>, <<"{U+03A6}", 19>>, <<"{U+00C5}", 17>>, <<"%", 21>>, <<"N", 23>>, <<"{U+03A0}", 19>>, <<"{U+0153}", 18>>, <<"{U+03BC}", 17>>, <<"{U+2234}", 20>> >> ],
    [ x |-> <<260, 1>>,
      translate_values |-> "0,-260;0,520", translate_dur |-> 44000, translate_begin |-> -2000,
      opacity_values |-> "0.24;0.93;0.24", opacity_dur |-> 44000, opacity_begin |-> -2000,
      glyphs |-> << <<"G", 18>>, <<"Y", 21>>, <<"@", 22>>, <<"{U+03A5}", 19>>, <<"{U+00CD}", 17>>, <<"{U+03C1}", 21>>, <<"{U+00C6}", 23>>, <<"W", 19>>, <<"{U+0127}", 18>>, <<"{U+03BE}", 17>>, <<"{U+2220}", 20>> >> ],
    [ x |-> <<300, 1>>,
      translate_values |-> "0,-280;0,560", translate_dur |-> 50000, translate_begin |-> -11000,
      opacity_values |-> "0.2;0.97;0.2", opacity_dur |-> 50000, opacity_begin |-> -11000,
      glyphs |-> << <<"{U+00F1}", 18>>, <<"T", 21>>, <<"8", 22>>, <<"{U+03D6}", 19>>, <<"{U+00CA}", 17>>, <<"{U+03C3}", 21>>, <<"{U+011E}", 23>>, <<"V", 19>>, <<"{U+0148}", 18>>, <<"{U+03C2}", 17>>, <<"{U+2235}", 20>> >> ],
    [ x |-> <<340, 1>>,
      translate_values |-> "0,-240;0,520", translate_dur |-> 43000, translate_begin |-> -27000,
      opacity_values |-> "0.22;0.92;0.22", opacity_dur |-> 43000, opacity_begin |-> -27000,
      glyphs |-> << <<"I", 18>>, <<"P", 21>>, <<"6", 22>>, <<"{U+03F1}", 19>>, <<"{U+00CB}", 17>>, <<"{U+03D9}", 21>>, <<"{U+00D0}", 23>>, <<"U", 19>>, <<"{U+0155}", 18>>, <<"{U+03DE}", 17>>, <<"{U+2217}", 20>> >> ],
    [ x |-> <<380, 1>>,
      translate_values |-> "0,-320;0,560", translate_dur |-> 56000, translate_begin |-> -15000,
      opacity_values |-> "0.19;0.96;0.19", opacity_dur |-> 56000, opacity_begin |-> -15000,
      glyphs |-> << <<"{U+00BF}", 18>>, <<"N", 21>>, <<"5", 22>>, <<"{U+03D7}", 19>>, <<"{U+0118}", 17>>, <<"{U+03DB}", 21>>, <<"{U+00C7}", 23>>, <<"R", 19>>, <<"{U+015B}", 18>>, <<"{U+03DF}", 17>>, <<"{U+222F}", 20>> >> ],
    [ x |-> <<420, 1>>,
      translate_values |-> "0,-260;0,520", translate_dur |-> 45000, translate_begin |-> -9000,
      opacity_values |-> "0.24;0.9;0.24", opacity_dur |-> 45000, opacity_begin |-> -9000,
      glyphs |-> << <<"K", 18>>, <<"C", 21>>, <<"4", 22>>, <<"{U+03E4}", 19>>, <<"{U+011A}", 17>>, <<"{U+03DD}", 21>>, <<"{U+014C}", 23>>, <<"S", 19>>, <<"{U+017E}", 18>>, <<"{U+03E1}", 17>>, <<"{U+223C}", 20>> >> ],
    [ x |-> <<460, 1>>,
      translate_values |-> "0,-300;0,560", translate_dur |-> 52000, translate_begin |-> -25000,
      opacity_values |-> "0.21;0.94;0.21", opacity_dur |-> 52000, opacity_begin |-> -25000,
      glyphs |-> << <<"{U+03C8}", 18>>, <<"E", 21>>, <<"3", 22>>, <<"{U+0398}", 19>>, <<"{U+00C1}", 17>>, <<"{U+0394}", 21>>, <<"{U+0160}", 23>>, <<"T", 19>>, <<"{U+00F1}", 18>>, <<"{U+03B2}", 17>>, <<"{U+2295}", 20>> >> ]
  >>

extra_glyph_cycle ==
  << <<"{U+00DF}", 19>>, <<"{U+00F8}", 20>>, <<"{U+03A3}", 22>>, <<"{U+00F1}", 18>>, <<"#", 19>>, <<"{U+03BE}", 18>>, <<"{U+00DE}", 21>>, <<"{U+00A1}", 19>>, <<"{U+03C8}", 21>>, <<"{U+0141}", 20>>, <<"{U+00BF}", 19>>, <<"K", 21>>, <<"{U+03BA}", 20>>, <<"{U+03DE}", 22>>, <<"2", 21>>, <<"0", 21>>, <<"{U+03A9}", 22>> >>

K2_GLYPH == <<"K2", 22>>

KTWO_GLYPH == <<"ktwo", 20>>

ASSISTANT_GLYPH == <<"{U+2211}AI", 20>>

SIGNATURE_GLYPHS == <<K2_GLYPH, KTWO_GLYPH>>

irregular_offsets == << 12, 53, 97, 141, 176, 219, 263, 298, 336, 371, 413, 452 >>

phase_shifts == << 85, -60, 140, -115, 32, 192, -78, 128, -42, 96, -148, 161 >>

translate_scales == << 118, 82, 135, 87, 126, 79, 132, 90, 124, 84, 129, 93 >>

opacity_scales == << 112, 86, 130, 90, 118, 82, 124, 88, 116, 84, 122, 90 >>

(***************************************************************************)
(* random.Random(0xC0FFEE): the top 8 bits of the first 96 32-bit words    *)
(* the Mersenne Twister yields from this seed.  getrandbits(k), k <= 8,    *)
(* is the top k bits of the next word.                                     *)
(***************************************************************************)
MT_C0FFEE ==
  << 245, 149, 158, 44, 4, 31, 169, 109, 48, 76, 196, 242, 120, 104, 108, 162, 188, 84, 165, 212, 238, 41, 254, 195, 233, 108, 162, 111, 235, 78, 173, 25,
     88, 198, 29, 87, 39, 217, 63, 109, 203, 17, 34, 136, 170, 51, 197, 96, 141, 122, 111, 218, 47, 45, 239, 185, 211, 221, 74, 197, 250, 7, 17, 129,
     66, 58, 102, 170, 197, 51, 26, 71, 86, 1, 129, 11, 241, 229, 162, 17, 27, 61, 85, 210, 53, 238, 202, 155, 26, 141, 33, 214, 83, 222, 30, 67 >>

(***************************************************************************)
(* generate_glyph_sequence.  Python lists are 0-based, sequences 1-based.  *)
(***************************************************************************)
TruncateBaseShort(base_glyphs, target_count) ==
  SubSeq(base_glyphs, 1, Min(target_count, Len(base_glyphs)) - 1)

TruncateBase(base_glyphs, target_count) ==
  SubSeq(base_glyphs, 1, Min(target_count, Len(base_glyphs)))

extended_cycle_seven_first(column_seed) ==
  LET with11 == IF column_seed % 11 = 0
                THEN <<ASSISTANT_GLYPH>> \o extra_glyph_cycle
                ELSE extra_glyph_cycle
  IN  IF column_seed % 7 = 0 THEN <<KTWO_GLYPH>> \o with11
      ELSE IF column_seed % 5 = 0 THEN <<K2_GLYPH>> \o with11
      ELSE with11

extended_cycle(column_seed) ==
  LET with11 == IF column_seed % 11 = 0
                THEN <<ASSISTANT_GLYPH>> \o extra_glyph_cycle
                ELSE extra_glyph_cycle
  IN  IF column_seed % 5 = 0 THEN <<K2_GLYPH>> \o with11
      ELSE IF column_seed % 7 = 0 THEN <<KTWO_GLYPH>> \o with11
      ELSE with11

rotated_cycle_fixed_length(column_seed) ==
  LET cycle == extended_cycle(column_seed)
      cycle_len == Len(cycle)
      rotation == (column_seed * 3) % Len(extra_glyph_cycle)
  IN  [i \in 1..cycle_len |-> cycle[((rotation + (i - 1)) % cycle_len) + 1]]

rotated_cycle(column_seed) ==
  LET cycle == extended_cycle(column_seed)
      cycle_len == Len(cycle)
      rotation == (column_seed * 3) % cycle_len
  IN  [i \in 1..cycle_len |-> cycle[((rotation + (i - 1)) % cycle_len) + 1]]

AppendFromCycleShort(glyphs, cycle, target_count) ==
  glyphs \o [k \in 1..(target_count - Len(glyphs) - 1) |->
               cycle[((k - 1) % Len(cycle)) + 1]]

AppendFromCycle(glyphs, cycle, target_count) ==
  glyphs \o [k \in 1..(target_count - Len(glyphs)) |->
               cycle[((k - 1) % Len(cycle)) + 1]]

generate_glyph_sequence(column_seed, base_glyphs, target_count) ==
  IF target_count <= 0 THEN <<>>
  ELSE LET glyphs == TruncateBase(base_glyphs, target_count)
       IN  IF Len(glyphs) = target_count THEN glyphs
           ELSE AppendFromCycle(glyphs, rotated_cycle(column_seed), target_count)

(***************************************************************************)
(* resolve_nice_flags: the clamped level and the feature-disable flags.    *)
(***************************************************************************)
resolve_nice_flags_strict(requested_level) ==
  LET level == Max(0, Min(requested_level, MAX_NICE_LEVEL))
  IN  [ level |-> level,
        flags |-> [name \in {NICE_FEATURE_STEPS[i] : i \in 1..MAX_NICE_LEVEL} |->
                     \E idx \in 1..MAX_NICE_LEVEL :
                        NICE_FEATURE_STEPS[idx] = name /\ level > idx] ]

resolve_nice_flags_single(requested_level) ==
  LET level == Max(0, Min(requested_level, MAX_NICE_LEVEL))
  IN  [ level |-> level,
        flags |-> [name \in {NICE_FEATURE_STEPS[i] : i \in 1..MAX_NICE_LEVEL} |->
                     \E idx \in 1..MAX_NICE_LEVEL :
                        NICE_FEATURE_STEPS[idx] = name
                        /\ (level = idx \/ level = MAX_NICE_LEVEL)] ]

resolve_nice_flags(requested_level) ==
  LET level == Max(0, Min(requested_level, MAX_NICE_LEVEL))
  IN  [ level |-> level,
        flags |-> [name \in {NICE_FEATURE_STEPS[i] : i \in 1..MAX_NICE_LEVEL} |->
                     \E idx \in 1..MAX_NICE_LEVEL :
                        NICE_FEATURE_STEPS[idx] = name /\ level >= idx] ]

(***************************************************************************)
(* rng = random.Random(0xC0FFEE) and rng.randint.  The generator's state   *)
(* is the number of words it has consumed.  randint(a, b) is               *)
(* a + _randbelow(b - a + 1), which draws bit_length(n) bits until the     *)
(* draw is below n, and raises ValueError on an empty range.               *)
(***************************************************************************)
RECURSIVE bit_length(_)
bit_length(n) == IF n = 0 THEN 0 ELSE 1 + bit_length(n \div 2)

getrandbits(rng, k) == MT_C0FFEE[rng + 1] \div (2 ^ (8 - k))

RECURSIVE randbelow(_, _, _)
randbelow(rng, n, k) ==
  LET r == getrandbits(rng, k)
  IN  IF r < n THEN [value |-> r, rng |-> rng + 1]
      ELSE randbelow(rng + 1, n, k)

randint(rng, a, b) ==
  IF a > b THEN [error |-> TRUE, value |-> 0, rng |-> rng]
  ELSE LET n == b - a + 1
           r == randbelow(rng, n, bit_length(n))
       IN  [error |-> FALSE, value |-> a + r.value, rng |-> r.rng]

pick_glyph_target_past_max(rng, min_gps, max_gps) ==
  IF min_gps = max_gps THEN [error |-> FALSE, value |-> min_gps, rng |-> rng]
  ELSE randint(rng, min_gps, max_gps + 1)

pick_glyph_target(rng, min_gps, max_gps) ==
  IF min_gps = max_gps THEN [error |-> FALSE, value |-> min_gps, rng |-> rng]
  ELSE randint(rng, min_gps, max_gps)

(***************************************************************************)
(* deepcopy(base_columns[i]): a template object of its own (slot 0).  A    *)
(* template that were the table's own entry would carry its slot, and      *)
(* StoreTemplate would write its fields through to the table.              *)
(***************************************************************************)
SharedTemplate(tables, i) == [obj |-> tables[i], slot |-> i]

deepcopy(tables, i) == [obj |-> tables[i], slot |-> 0]

StoreTemplate(tables, ref, obj) ==
  IF ref.slot = 0 THEN tables ELSE [tables EXCEPT ![ref.slot] = obj]

(***************************************************************************)
(* build_columns.  The loops thread a record st: the columns so far, the   *)
(* generator's state, the base table, and whether an exception was raised. *)
(***************************************************************************)
span_width_per_column(regular_count, irregular_count) ==
  LET total_columns == Max(regular_count + irregular_count, 1)
  IN  Max(MIN_SPAN_WIDTH, total_columns * COLUMN_BASE_SPACING)

span_width(regular_count, irregular_count) ==
  LET total_columns == Max(regular_count + irregular_count, 1)
  IN  Max(MIN_SPAN_WIDTH, (total_columns - 1) * COLUMN_BASE_SPACING)

RegularXNoSingleCase(idx, regular_count, span) ==
  RMul(RDiv(RInt(span), RInt(Max(regular_count - 1, 1))), RInt(idx))

RegularX(idx, regular_count, span) ==
  IF regular_count = 1 THEN RDiv(RInt(span), RInt(2))
  ELSE RMul(RDiv(RInt(span), RInt(Max(regular_count - 1, 1))), RInt(idx))

RegularColumn(st, idx, min_gps, max_gps, regular_count, span) ==
  LET ref == deepcopy(st.base_columns, (idx % Len(st.base_columns)) + 1)
      placed == [ref.obj EXCEPT !.x = RegularX(idx, regular_count, span)]
      pick == pick_glyph_target(st.rng, min_gps, max_gps)
      template == [placed EXCEPT
                     !.glyphs = generate_glyph_sequence(idx, @, pick.value)]
  IN  IF pick.error
      THEN [st EXCEPT !.error = TRUE,
                      !.base_columns = StoreTemplate(@, ref, placed)]
      ELSE [ columns |-> Append(st.columns, template),
             rng |-> pick.rng,
             base_columns |-> StoreTemplate(st.base_columns, ref, template),
             seeds |-> Append(st.seeds, idx),
             templates |-> Append(st.templates, idx % Len(st.base_columns)),
             error |-> FALSE ]

RECURSIVE RegularColumns(_, _, _, _, _, _)
RegularColumns(st, idx, min_gps, max_gps, regular_count, span) ==
  IF st.error \/ idx >= Max(0, regular_count) THEN st
  ELSE RegularColumns(RegularColumn(st, idx, min_gps, max_gps, regular_count, span),
                      idx + 1, min_gps, max_gps, regular_count, span)

(***************************************************************************)
(* select_irregular_indices.  Indices are 0-based, as in the program.      *)
(* RoundHalfEven(n, d) is Python's round(n / d) for n >= 0, d > 0.         *)
(***************************************************************************)
RoundHalfEven(n, d) ==
  LET q == n \div d
      twice == 2 * (n % d)
  IN  IF twice > d THEN q + 1
      ELSE IF twice < d THEN q
      ELSE IF q % 2 = 0 THEN q ELSE q + 1

RECURSIVE sorted(_)
sorted(s) ==
  IF s = <<>> THEN <<>>
  ELSE LET rest == sorted(Tail(s))
           k == Cardinality({j \in 1..Len(rest) : rest[j] < Head(s)})
       IN  SubSeq(rest, 1, k) \o <<Head(s)>> \o SubSeq(rest, k + 1, Len(rest))

RECURSIVE StepUpWhileUsed(_, _, _)
StepUpWhileUsed(idx, used, irregular_len) ==
  IF idx \in used /\ idx < irregular_len - 1
  THEN StepUpWhileUsed(idx + 1, used, irregular_len)
  ELSE idx

RECURSIVE StepDownWhileUsed(_, _)
StepDownWhileUsed(candidate, used) ==
  IF candidate >= 0 /\ candidate \in used
  THEN StepDownWhileUsed(candidate - 1, used)
  ELSE candidate

RECURSIVE WrapWhileUsed(_, _, _)
WrapWhileUsed(idx, used, irregular_len) ==
  IF idx \in used THEN WrapWhileUsed((idx + 1) % irregular_len, used, irregular_len)
  ELSE idx

PlaceIndexTruncating(i, count, used, irregular_len) ==
  LET truncated == (i * (irregular_len - 1)) \div (count - 1)
      clamped == Max(0, Min(irregular_len - 1, truncated))
      up == StepUpWhileUsed(clamped, used, irregular_len)
      candidate == StepDownWhileUsed(up - 1, used)
  IN  IF up \notin used THEN up
      ELSE IF candidate >= 0 THEN candidate
      ELSE WrapWhileUsed((up + 1) % irregular_len, used, irregular_len)

PlaceIndex(i, count, used, irregular_len) ==
  LET rounded == RoundHalfEven(i * (irregular_len - 1), count - 1)
      clamped == Max(0, Min(irregular_len - 1, rounded))
      up == StepUpWhileUsed(clamped, used, irregular_len)
      candidate == StepDownWhileUsed(up - 1, used)
  IN  IF up \notin used THEN up
      ELSE IF candidate >= 0 THEN candidate
      ELSE WrapWhileUsed((up + 1) % irregular_len, used, irregular_len)

RECURSIVE SpreadIndices(_, _, _, _)
SpreadIndices(indices, i, count, irregular_len) ==
  IF i >= count THEN sorted(indices)
  ELSE LET used == {indices[j] : j \in 1..Len(indices)}
       IN  SpreadIndices(Append(indices, PlaceIndex(i, count, used, irregular_len)),
                         i + 1, count, irregular_len)

RepeatIndicesUnrotated(indices, cycle, pos, count, irregular_len) ==
  [k \in 1..count |-> (k - 1) % irregular_len]

RECURSIVE RepeatIndices(_, _, _, _, _)
RepeatIndices(indices, cycle, pos, count, irregular_len) ==
  LET cycles == (count + irregular_len - 1) \div irregular_len
      offset == (cycle * 3) % irregular_len
      next == Append(indices, (pos + offset) % irregular_len)
  IN  IF cycle >= cycles THEN indices
      ELSE IF pos >= irregular_len
           THEN RepeatIndices(indices, cycle + 1, 0, count, irregular_len)
      ELSE IF Len(next) = count THEN next
      ELSE RepeatIndices(next, cycle, pos + 1, count, irregular_len)

select_irregular_indices(count) ==
  LET irregular_len == Len(irregular_offsets)
  IN  IF count <= 0 \/ irregular_len = 0 THEN <<>>
      ELSE IF count = 1 THEN <<irregular_len \div 2>>
      ELSE IF count <= irregular_len THEN SpreadIndices(<<>>, 0, count, irregular_len)
      ELSE RepeatIndices(<<>>, 0, 0, count, irregular_len)

(***************************************************************************)
(* The irregular columns, the renormalization pass and build_columns.      *)
(* build_columns yields what the call returns (columns, canvas_width),     *)
(* whether it raised (error), its local list xs of the x positions as      *)
(* placed, before renormalization, the list irregular_indices it selected, *)
(* the seed handed to generate_glyph_sequence and the base_columns index   *)
(* copied for each column (seeds, templates, 0-based, in the order of the  *)
(* columns), and the base table as the call left it.                       *)
(***************************************************************************)
SeqMin(s) == CHOOSE m \in {s[i] : i \in DOMAIN s} : \A i \in DOMAIN s : m <= s[i]

SeqMax(s) == CHOOSE m \in {s[i] : i \in DOMAIN s} : \A i \in DOMAIN s : m >= s[i]

IrregularXFromZero(offset_idx, span) ==
  RMul(Rat(irregular_offsets[offset_idx + 1], SeqMax(irregular_offsets)), RInt(span))

IrregularX(offset_idx, span) ==
  LET offset_min == SeqMin(irregular_offsets)
      offset_max == SeqMax(irregular_offsets)
      normalized == IF offset_max = offset_min THEN Rat(1, 2)
                    ELSE Rat(irregular_offsets[offset_idx + 1] - offset_min,
                             offset_max - offset_min)
  IN  RMul(normalized, RInt(span))

IrregularSeedUnshifted(idx, regular_count) == idx

IrregularSeed(idx, regular_count) == idx + regular_count

IrregularColumn(st, idx, offset_idx, min_gps, max_gps, regular_count, span) ==
  LET ref == deepcopy(st.base_columns, (idx % Len(st.base_columns)) + 1)
      shift == phase_shifts[offset_idx + 1]
      placed == [ref.obj EXCEPT
                   !.x = IrregularX(offset_idx, span),
                   !.translate_begin = @ + shift * 100,
                   !.opacity_begin = @ + shift * 65,
                   !.translate_dur = (@ * translate_scales[offset_idx + 1]) \div 100,
                   !.opacity_dur = (@ * opacity_scales[offset_idx + 1]) \div 100]
      pick == pick_glyph_target(st.rng, min_gps, max_gps)
      column_seed == IrregularSeed(idx, regular_count)
      template == [placed EXCEPT
                     !.glyphs = generate_glyph_sequence(column_seed, @, pick.value)]
  IN  IF pick.error
      THEN [st EXCEPT !.error = TRUE,
                      !.base_columns = StoreTemplate(@, ref, placed)]
      ELSE [ columns |-> Append(st.columns, template),
             rng |-> pick.rng,
             base_columns |-> StoreTemplate(st.base_columns, ref, template),
             seeds |-> Append(st.seeds, column_seed),
             templates |-> Append(st.templates, idx % Len(st.base_columns)),
             error |-> FALSE ]

RECURSIVE IrregularColumns(_, _, _, _, _, _, _)
IrregularColumns(st, idx, irregular_indices, min_gps, max_gps, regular_count, span) ==
  IF st.error \/ idx >= Len(irregular_indices) THEN st
  ELSE IrregularColumns(
         IrregularColumn(st, idx, irregular_indices[idx + 1],
                         min_gps, max_gps, regular_count, span),
         idx + 1, irregular_indices, min_gps, max_gps, regular_count, span)

RenormalizeShiftOnly(columns, span) ==
  [i \in 1..Len(columns) |->
     [columns[i] EXCEPT !.x = RAdd(@, RInt(EDGE_MARGIN))]]

Renormalize(columns, span) ==
  LET xs == [i \in 1..Len(columns) |-> columns[i].x]
      min_x == RMinOf(xs)
      max_x == RMaxOf(xs)
      scale == RDiv(RInt(span), RSub(max_x, min_x))
      normalized_positions ==
        IF max_x = min_x THEN [i \in 1..Len(xs) |-> RDiv(RInt(span), RInt(2))]
        ELSE [i \in 1..Len(xs) |-> RMul(RSub(xs[i], min_x), scale)]
  IN  [i \in 1..Len(columns) |->
         [columns[i] EXCEPT !.x = RAdd(normalized_positions[i], RInt(EDGE_MARGIN))]]

CanvasWidth(columns, span) ==
  IF columns # <<>> THEN span + 2 * EDGE_MARGIN ELSE BASE_CANVAS_WIDTH

build_columns(tables, min_gps, max_gps, regular_count, irregular_count) ==
  LET span == span_width(regular_count, irregular_count)
      start == [ columns |-> <<>>, rng |-> 0, base_columns |-> tables,
                 seeds |-> <<>>, templates |-> <<>>, error |-> FALSE ]
      regular == RegularColumns(start, 0, min_gps, max_gps, regular_count, span)
      irregular_indices == select_irregular_indices(Max(0, irregular_count))
      placed == IrregularColumns(regular, 0, irregular_indices,
                                 min_gps, max_gps, regular_count, span)
  IN  IF placed.error
      THEN [ error |-> TRUE, xs |-> <<>>, columns |-> <<>>, canvas_width |-> 0,
             irregular_indices |-> irregular_indices,
             seeds |-> placed.seeds, templates |-> placed.templates,
             base_columns |-> placed.base_columns ]
      ELSE [ error |-> FALSE,
             xs |-> [i \in 1..Len(placed.columns) |-> placed.columns[i].x],
             irregular_indices |-> irregular_indices,
             seeds |-> placed.seeds, templates |-> placed.templates,
             columns |-> IF placed.columns # <<>>
                         THEN Renormalize(placed.columns, span) ELSE <<>>,
             canvas_width |-> CanvasWidth(placed.columns, span),
             base_columns |-> placed.base_columns ]

(***************************************************************************)
(* fmt_num on a value given in hundredths: f"{value:.2f}", without the     *)
(* fraction when it is "00" and without trailing zeros otherwise.          *)
(***************************************************************************)
fmt_num(hundredths) ==
  LET sign == IF hundredths < 0 THEN "-" ELSE ""
      whole == ToString(Abs(hundredths) \div 100)
      frac == Abs(hundredths) % 100
  IN  IF frac = 0 THEN sign \o whole
      ELSE IF frac % 10 = 0 THEN sign \o whole \o "." \o ToString(frac \div 10)
      ELSE IF frac < 10 THEN sign \o whole \o ".0" \o ToString(frac)
      ELSE sign \o whole \o "." \o ToString(frac)

(***************************************************************************)
(* build_matrix_rain.  The patterns table: times in 1/10000 s, size_high   *)
(* and size_low in 1/100.  split_floats is                                 *)
(* [float(v) for v in s.split(';')] in 1/100 and split_pairs is the list   *)
(* of float pairs of a translate_values string, on the strings the tables  *)
(* hold.                                                                   *)
(***************************************************************************)
patterns ==
  <<
    [ fill_values |-> "0.3;0.95;0.3", fill_dur |-> 26000, fill_begin |-> -9000,
      transform_values |-> "0,-8;0,4;0,-5;0,-8", transform_dur |-> 34000, transform_begin |-> -5000,
      size_dur |-> 40000, size_begin |-> -11000, size_high |-> 100, size_low |-> -100 ],
    [ fill_values |-> "0.25;0.88;0.28;0.25", fill_dur |-> 22000, fill_begin |-> -16000,
      transform_values |-> "0,-6;0,2;0,-4;0,-6", transform_dur |-> 29000, transform_begin |-> -7000,
      size_dur |-> 33000, size_begin |-> -8000, size_high |-> 120, size_low |-> -80 ],
    [ fill_values |-> "0.2;0.92;0.2", fill_dur |-> 31000, fill_begin |-> -4000,
      transform_values |-> "0,-10;0,5;0,-3;0,-10", transform_dur |-> 36000, transform_begin |-> -12000,
      size_dur |-> 37000, size_begin |-> -14000, size_high |-> 80, size_low |-> -120 ],
    [ fill_values |-> "0.34;0.9;0.34", fill_dur |-> 24000, fill_begin |-> -12000,
      transform_values |-> "0,-7;0,3;0,-6;0,-7", transform_dur |-> 30000, transform_begin |-> -3000,
      size_dur |-> 35000, size_begin |-> -10000, size_high |-> 100, size_low |-> -50 ],
    [ fill_values |-> "0.18;0.82;0.24;0.18", fill_dur |-> 48000, fill_begin |-> -21000,
      transform_values |-> "0,-5;0,6;0,-7;0,-5", transform_dur |-> 63000, transform_begin |-> -18000,
      size_dur |-> 49000, size_begin |-> -22000, size_high |-> 160, size_low |-> -130 ],
    [ fill_values |-> "0.4;1;0.5;0.4", fill_dur |-> 17000, fill_begin |-> -6500,
      transform_values |-> "0,-14;0,3;0,-9;0,-14", transform_dur |-> 21000, transform_begin |-> -9500,
      size_dur |-> 24000, size_begin |-> -7000, size_high |-> 60, size_low |-> -180 ],
    [ fill_values |-> "0.22;0.9;0.3;0.22", fill_dur |-> 56000, fill_begin |-> -28000,
      transform_values |-> "0,-6;0,5;0,-8;0,-6", transform_dur |-> 68000, transform_begin |-> -24000,
      size_dur |-> 54000, size_begin |-> -26000, size_high |-> 180, size_low |-> -150 ],
    [ fill_values |-> "0.32;0.96;0.4;0.32", fill_dur |-> 14000, fill_begin |-> -3500,
      transform_values |-> "0,-18;0,8;0,-11;0,-18", transform_dur |-> 19000, transform_begin |-> -5500,
      size_dur |-> 21000, size_begin |-> -6000, size_high |-> 90, size_low |-> -210 ]
  >>

split_floats(s) ==
  CASE s = "0.3;0.95;0.3" -> << 30, 95, 30 >>
    [] s = "0.25;0.88;0.28;0.25" -> << 25, 88, 28, 25 >>
    [] s = "0.2;0.92;0.2" -> << 20, 92, 20 >>
    [] s = "0.34;0.9;0.34" -> << 34, 90, 34 >>
    [] s = "0.18;0.82;0.24;0.18" -> << 18, 82, 24, 18 >>
    [] s = "0.4;1;0.5;0.4" -> << 40, 100, 50, 40 >>
    [] s = "0.22;0.9;0.3;0.22" -> << 22, 90, 30, 22 >>
    [] s = "0.32;0.96;0.4;0.32" -> << 32, 96, 40, 32 >>
    [] s = "0.17;0.95;0.17" -> << 17, 95, 17 >>
    [] s = "0.18;0.92;0.18" -> << 18, 92, 18 >>
    [] s = "0.18;1;0.18" -> << 18, 100, 18 >>
    [] s = "0.19;0.96;0.19" -> << 19, 96, 19 >>
    [] s = "0.21;0.94;0.21" -> << 21, 94, 21 >>
    [] s = "0.22;0.92;0.22" -> << 22, 92, 22 >>
    [] s = "0.24;0.93;0.24" -> << 24, 93, 24 >>
    [] s = "0.24;0.9;0.24" -> << 24, 90, 24 >>
    [] s = "0.25;0.9;0.25" -> << 25, 90, 25 >>
    [] s = "0.26;0.9;0.26" -> << 26, 90, 26 >>
    [] s = "0.2;0.95;0.2" -> << 20, 95, 20 >>
    [] s = "0.2;0.97;0.2" -> << 20, 97, 20 >>

split_pairs(s) ==
  CASE s = "0,-240;0,520" -> << <<0, -240>>, <<0, 520>> >>
    [] s = "0,-260;0,520" -> << <<0, -260>>, <<0, 520>> >>
    [] s = "0,-260;0,540" -> << <<0, -260>>, <<0, 540>> >>
    [] s = "0,-260;0,560" -> << <<0, -260>>, <<0, 560>> >>
    [] s = "0,-280;0,560" -> << <<0, -280>>, <<0, 560>> >>
    [] s = "0,-300;0,520" -> << <<0, -300>>, <<0, 520>> >>
    [] s = "0,-300;0,560" -> << <<0, -300>>, <<0, 560>> >>
    [] s = "0,-320;0,520" -> << <<0, -320>>, <<0, 520>> >>
    [] s = "0,-320;0,560" -> << <<0, -320>>, <<0, 560>> >>

(***************************************************************************)
(* One glyph of the rain: the <text> element, as its character, its        *)
(* attributes and its animation children in document order.  Numeric       *)
(* attribute and keyframe values are the exact fractions the code hands to *)
(* fmt_num; the dur and begin attributes of the animations are left out.   *)
(***************************************************************************)
BaseTextAttrs == {"x", "y", "fill", "font-size", "transform"}

StaticFallbackAttrsNone(nice_flags) == {}

StaticFallbackAttrs(nice_flags) ==
  (IF nice_flags["disable_per_glyph_opacity"] THEN {"opacity"} ELSE {})
  \cup (IF nice_flags["disable_fill_opacity_pulse"] THEN {"fill-opacity"} ELSE {})

peak_opacity(col, glyph_idx) ==
  LET middle == split_floats(col.opacity_values)[2]
      scaled == middle * (100 + 8 * ((glyph_idx % 3) - 1))
  IN  Rat(Min(9800, Max(4000, scaled)), 10000)

RECURSIVE SeqSum(_)
SeqSum(xs) == IF xs = <<>> THEN 0 ELSE Head(xs) + SeqSum(Tail(xs))

fill_static(pattern) ==
  LET fill_values_sequence == split_floats(pattern.fill_values)
  IN  Rat(SeqSum(fill_values_sequence), 100 * Len(fill_values_sequence))

scale_value(size, delta) ==
  LET scale == IF size # 0 THEN Rat(size * 100 + delta, size * 100) ELSE RInt(1)
  IN  IF RLeq(scale, Rat(1, 5)) THEN Rat(1, 5) ELSE scale

FallAnimation(start_translation, end_translation) ==
  [ tag |-> "animateTransform", attributeName |-> "transform",
    type |-> "translate", additive |-> "",
    values |-> << <<0, start_translation>>, <<0, end_translation>> >> ]

FillOpacityAnimation(pattern) ==
  [ tag |-> "animate", attributeName |-> "fill-opacity",
    type |-> "", additive |-> "", values |-> pattern.fill_values ]

OpacityAnimation(col, glyph_idx) ==
  [ tag |-> "animate", attributeName |-> "opacity",
    type |-> "", additive |-> "",
    values |-> << Rat(8, 100), peak_opacity(col, glyph_idx), Rat(6, 100) >> ]

SizeAnimation(pattern, size) ==
  [ tag |-> "animateTransform", attributeName |-> "transform",
    type |-> "scale", additive |-> "sum",
    values |-> << RInt(1), scale_value(size, pattern.size_high),
                  scale_value(size, pattern.size_low), RInt(1) >> ]

JitterAnimation(pattern) ==
  [ tag |-> "animateTransform", attributeName |-> "transform",
    type |-> "translate", additive |-> "sum",
    values |-> pattern.transform_values ]

GatedAnimations(nice_flags, col, glyph_idx, pattern, size) ==
  (IF ~nice_flags["disable_fill_opacity_pulse"]
     THEN <<FillOpacityAnimation(pattern)>> ELSE <<>>)
  \o (IF ~nice_flags["disable_per_glyph_opacity"]
        THEN <<OpacityAnimation(col, glyph_idx)>> ELSE <<>>)
  \o (IF ~nice_flags["disable_font_size_animation"]
        THEN <<SizeAnimation(pattern, size)>> ELSE <<>>)
  \o (IF ~nice_flags["disable_micro_jitter"]
        THEN <<JitterAnimation(pattern)>> ELSE <<>>)

GlyphText(col, col_idx, glyph_idx, nice_flags) ==
  LET char == col.glyphs[glyph_idx + 1][1]
      size == col.glyphs[glyph_idx + 1][2]
      base_y == 20 + glyph_idx * 40
      pattern_idx == (glyph_idx + col_idx) % Len(patterns)
      pattern == patterns[pattern_idx + 1]
      translate_pairs == split_pairs(col.translate_values)
      start_offset_y == translate_pairs[1][2]
      end_offset_y == translate_pairs[Len(translate_pairs)][2]
      start_translation == (base_y + start_offset_y) - base_y
      end_translation == (base_y + end_offset_y) - base_y
      names == BaseTextAttrs \cup StaticFallbackAttrs(nice_flags)
  IN  [ text |-> char,
        attrs |->
          [a \in names |->
             CASE a = "x" -> RInt(0)
               [] a = "y" -> RInt(base_y)
               [] a = "fill" -> "url(#gradGlow)"
               [] a = "font-size" -> RInt(size)
               [] a = "transform" -> <<0, start_translation>>
               [] a = "opacity" -> peak_opacity(col, glyph_idx)
               [] a = "fill-opacity" -> fill_static(pattern)],
        children |->
          <<FallAnimation(start_translation, end_translation)>>
          \o GatedAnimations(nice_flags, col, glyph_idx, pattern, size) ]

(***************************************************************************)
(* build_matrix_rain: one group per column, holding the column's x, the    *)
(* attributes of its inner group and the glyphs' <text> elements.          *)
(***************************************************************************)
build_matrix_rain(columns, nice_flags) ==
  [col_idx0 \in 1..Len(columns) |->
     LET col == columns[col_idx0]
         col_idx == col_idx0 - 1
     IN  [ x |-> col.x,
           inner_attrs |-> IF ~nice_flags["disable_trail_filter"]
                           THEN {"filter"} ELSE {},
           texts |-> [g \in 1..Len(col.glyphs) |->
                        GlyphText(col, col_idx, g - 1, nice_flags)] ]]

(***************************************************************************)
(* build_svg.  An Optional[int] argument is <<>> for None and <<n>> for n. *)
(* The document is modelled by the list of the root's child layers and the *)
(* content of the matrixRain layer.                                        *)
(***************************************************************************)
ClampGpsMin(gps_min) == Max(1, gps_min)

ClampGpsMaxMissing(gps_min, gps_max) == gps_max

ClampGpsMax(gps_min, gps_max) == Max(gps_min, gps_max)

ClampColumnCount(columns_arg, tables) ==
  Max(0, IF columns_arg = <<>> THEN Len(tables) ELSE columns_arg[1])

IncludeLightningAlways(include_lightning, nice_flags) == include_lightning

IncludeLightning(include_lightning, nice_flags) ==
  include_lightning /\ ~nice_flags["disable_lightning"]

DocumentLayers(include_metadata, include_lightning) ==
  (IF include_metadata THEN <<"metadata">> ELSE <<>>)
  \o <<"style", "defs", "rect", "rect", "matrixRain">>
  \o (IF include_lightning THEN <<"lightning">> ELSE <<>>)

build_svg(tables, include_lightning, nice_level, gps_min, gps_max, regular_columns, irregular_columns, include_metadata) ==
  LET nice == resolve_nice_flags(nice_level)
      min_gps == ClampGpsMin(gps_min)
      max_gps == ClampGpsMax(min_gps, gps_max)
      regular_count == ClampColumnCount(regular_columns, tables)
      irregular_count == ClampColumnCount(irregular_columns, tables)
      built == build_columns(tables, min_gps, max_gps, regular_count, irregular_count)
      lightning == IncludeLightning(include_lightning, nice.flags)
  IN  [ error |-> built.error,
        nice_level |-> nice.level,
        nice_flags |-> nice.flags,
        gps_min |-> min_gps,
        gps_max |-> max_gps,
        regular_columns |-> regular_count,
        irregular_columns |-> irregular_count,
        columns |-> built.columns,
        canvas_width |-> built.canvas_width,
        width_text |-> IF built.error THEN "" ELSE fmt_num(built.canvas_width * 100),
        layers |-> IF built.error THEN <<>>
                   ELSE DocumentLayers(include_metadata, lightning),
        rain |-> IF built.error THEN <<>>
                 ELSE build_matrix_rain(built.columns, nice.flags),
        base_columns |-> built.base_columns ]

(***************************************************************************)
(* The state machine: one process that calls the module's functions, one   *)
(* call at a time.  pc is "idle" between calls and "returned" after one;   *)
(* op, args and result describe the call that returned.  base_columns is   *)
(* the module-level table the calls share.  prev remembers one earlier     *)
(* build_columns call, <<[args, result]>>, or is <<>>.                     *)
(***************************************************************************)
NoCall == <<>>

Init ==
  /\ pc = "idle"
  /\ op = "none"
  /\ args = NoCall
  /\ result = NoCall
  /\ base_columns = InitialBaseColumns
  /\ prev = NoCall

BaseLists ==
  UNION {{SubSeq(InitialBaseColumns[b].glyphs, 1, n) :
            n \in (0..MaxBaseLen) \cup {Len(InitialBaseColumns[b].glyphs)}} :
         b \in 1..NumBaseLists}

Levels == (0 - LevelSlack)..(MAX_NICE_LEVEL + LevelSlack)

GpsPairs(mins, spread) == {<<lo, lo + d>> : lo \in mins, d \in 0..spread}

OptionalCounts(hi) == {<<>>} \cup {<<n>> : n \in (0 - 1)..hi}

GenerateGlyphSequenceCall(seeds, targets) ==
  /\ pc = "idle"
  /\ \E column_seed \in seeds, base_glyphs \in BaseLists, target_count \in targets :
       /\ args' = [ column_seed |-> column_seed, base_glyphs |-> base_glyphs,
                    target_count |-> target_count ]
       /\ result' = generate_glyph_sequence(column_seed, base_glyphs, target_count)
  /\ op' = "generate_glyph_sequence"
  /\ pc' = "returned"
  /\ UNCHANGED <<base_columns, prev>>

GenerateGlyphSequence == GenerateGlyphSequenceCall(0..MaxSeed, (0 - 1)..MaxTarget)

ResolveNiceFlags ==
  /\ pc = "idle"
  /\ \E requested_level \in Levels :
       /\ args' = [requested_level |-> requested_level]
       /\ result' = resolve_nice_flags(requested_level)
  /\ op' = "resolve_nice_flags"
  /\ pc' = "returned"
  /\ UNCHANGED <<base_columns, prev>>

BuildColumnsCall(pairs, regulars, irregulars) ==
  /\ pc = "idle"
  /\ \E gps \in pairs, regular_count \in regulars, irregular_count \in irregulars :
       \E built \in {build_columns(base_columns, gps[1], gps[2],
                                    regular_count, irregular_count)} :
           /\ args' = [ min_gps |-> gps[1], max_gps |-> gps[2],
                        regular_count |-> regular_count,
                        irregular_count |-> irregular_count ]
           /\ result' = [f \in (DOMAIN built) \ {"base_columns"} |-> built[f]]
           /\ base_columns' = built.base_columns
  /\ op' = "build_columns"
  /\ pc' = "returned"
  /\ UNCHANGED prev

BuildColumns ==
  BuildColumnsCall(GpsPairs({1, 11, 22}, MaxGpsSpread), 0..MaxRegular, 0..MaxIrregular)

BuildSvgCall(levels, gpss, counts) ==
  /\ pc = "idle"
  /\ \E include_lightning \in BOOLEAN, include_metadata \in BOOLEAN,
        nice_level \in levels, gps_min \in gpss, gps_max \in gpss,
        regular_columns \in counts, irregular_columns \in counts :
       \E svg \in {build_svg(base_columns, include_lightning, nice_level, gps_min,
                              gps_max, regular_columns, irregular_columns,
                              include_metadata)} :
           /\ args' = [ include_lightning |-> include_lightning,
                        nice_level |-> nice_level,
                        gps_min |-> gps_min, gps_max |-> gps_max,
                        regular_columns |-> regular_columns,
                        irregular_columns |-> irregular_columns,
                        include_metadata |-> include_metadata ]
           /\ result' = [f \in (DOMAIN svg) \ {"base_columns"} |-> svg[f]]
           /\ base_columns' = svg.base_columns
  /\ op' = "build_svg"
  /\ pc' = "returned"
  /\ UNCHANGED prev

BuildSvg == BuildSvgCall(Levels, (0 - 1)..SvgMaxGps, OptionalCounts(SvgMaxColumns))

Return ==
  /\ pc = "returned"
  /\ pc' = "idle"
  /\ op' = "none"
  /\ args' = NoCall
  /\ result' = NoCall
  /\ UNCHANGED <<base_columns, prev>>

Next == GenerateGlyphSequence \/ ResolveNiceFlags \/ BuildColumns \/ BuildSvg \/ Return

Spec == Init /\ [][Next]_vars

(***************************************************************************)
(* SpecDet: repeated build_columns calls in one process, with other calls  *)
(* in between.  Remember is a Return that keeps the call in prev, so that  *)
(* a later call with the same arguments can be compared with it.           *)
(***************************************************************************)
BuildColumnsDet ==
  BuildColumnsCall(GpsPairs({1, 11}, MaxGpsSpread), 0..DetMaxColumns, 0..DetMaxColumns)

GenerateGlyphSequenceDet == GenerateGlyphSequenceCall({0, 5}, {0, 13})

BuildSvgDet == BuildSvgCall({0}, {1, 2}, {<<>>, <<1>>})

Remember ==
  /\ pc = "returned"
  /\ op = "build_columns"
  /\ prev' = <<[args |-> args, result |-> result]>>
  /\ pc' = "idle"
  /\ op' = "none"
  /\ args' = NoCall
  /\ result' = NoCall
  /\ UNCHANGED base_columns

NextDet ==
  BuildColumnsDet \/ Remember \/ Return \/ ResolveNiceFlags
    \/ GenerateGlyphSequenceDet \/ BuildSvgDet

SpecDet == Init /\ [][NextDet]_vars

(***************************************************************************)
(* Properties.                                                             *)
(***************************************************************************)
Returned(name) == pc = "returned" /\ op = name

Range(seq) == {seq[i] : i \in 1..Len(seq)}

\* C1: generate_glyph_sequence returns the empty sequence when
\* target_count <= 0, and exactly base[:target_count] (same entries, same
\* order, whatever the seed) when 0 < target_count <= len(base).
C1_EmptyOrPrefix ==
  Returned("generate_glyph_sequence") =>
    /\ args.target_count <= 0 => result = <<>>
    /\ (0 < args.target_count /\ args.target_count <= Len(args.base_glyphs)) =>
         /\ Len(result) = args.target_count
         /\ \A i \in 1..args.target_count : result[i] = args.base_glyphs[i]

C1_Witness ==
  /\ Returned("generate_glyph_sequence")
  /\ args.column_seed = 55
  /\ Len(args.base_glyphs) = 11
  /\ args.target_count = 4
  /\ Len(result) = 4

\* C2: when target_count > len(base) the result has exactly target_count
\* entries, begins with base unchanged, and every later entry is an entry of
\* the extra-glyph cycle or one of the signature glyphs K2, ktwo, (sum)AI.
C2_ExtendedFromCycle ==
  (Returned("generate_glyph_sequence")
     /\ args.target_count > Len(args.base_glyphs)) =>
    /\ Len(result) = args.target_count
    /\ \A i \in 1..Len(args.base_glyphs) : result[i] = args.base_glyphs[i]
    /\ \A i \in (Len(args.base_glyphs) + 1)..Len(result) :
         result[i] \in Range(extra_glyph_cycle)
                         \cup {<<"K2", 22>>, <<"ktwo", 20>>, <<"{U+2211}AI", 20>>}

C2_Witness ==
  /\ Returned("generate_glyph_sequence")
  /\ args.column_seed = 55
  /\ Len(args.base_glyphs) = 2
  /\ args.target_count = 22
  /\ Len(result) = 22
  /\ <<"K2", 22>> \in Range(result)
  /\ <<"{U+2211}AI", 20>> \in Range(result)

\* C3: resolve_nice_flags returns the level clamped into 0..6, and the i-th
\* feature in declared order (font-size animation, micro-jitter, per-glyph
\* opacity, fill-opacity pulse, trail filter, lightning) is disabled iff the
\* returned level is at least i: exactly the first `level` features.
C3_Features ==
  << "disable_font_size_animation", "disable_micro_jitter",
     "disable_per_glyph_opacity", "disable_fill_opacity_pulse",
     "disable_trail_filter", "disable_lightning" >>

C3_ClampedPrefix ==
  Returned("resolve_nice_flags") =>
    /\ result.level = (IF args.requested_level < 0 THEN 0
                       ELSE IF args.requested_level > 6 THEN 6
                       ELSE args.requested_level)
    /\ DOMAIN result.flags = Range(C3_Features)
    /\ \A i \in 1..6 : result.flags[C3_Features[i]] <=> (result.level >= i)
    /\ Cardinality({f \in DOMAIN result.flags : result.flags[f]}) = result.level

C3_Witness ==
  /\ Returned("resolve_nice_flags")
  /\ args.requested_level = 7
  /\ result.level = 6
  /\ result.flags["disable_lightning"]

\* C4: the resolver is monotonic: the features disabled at a level are also
\* disabled at the next level; level 0 disables nothing and level N = 6
\* disables every feature.
Disabled(flags) == {f \in DOMAIN flags : flags[f]}

C4_Monotonic ==
  Returned("resolve_nice_flags") =>
    /\ Disabled(result.flags)
         \subseteq Disabled(resolve_nice_flags(args.requested_level + 1).flags)
    /\ args.requested_level = 0 => Disabled(result.flags) = {}
    /\ args.requested_level = 6 => Disabled(result.flags) = DOMAIN result.flags

C4_Witness ==
  /\ Returned("resolve_nice_flags")
  /\ args.requested_level = 3
  /\ Cardinality(Disabled(result.flags)) = 3
  /\ Cardinality(Disabled(resolve_nice_flags(4).flags)) = 4

\* C5: with counts >= 0, build_columns returns canvas width
\* max(MIN_SPAN_WIDTH, (regular_count + irregular_count - 1) * COLUMN_BASE_SPACING)
\* + 2 * EDGE_MARGIN when it generates a column and BASE_CANVAS_WIDTH when it
\* generates none: a function of regular_count + irregular_count alone.
C5_CanvasWidth ==
  (Returned("build_columns") /\ ~result.error
     /\ args.regular_count >= 0 /\ args.irregular_count >= 0) =>
    IF Len(result.columns) >= 1
    THEN result.canvas_width =
           Max(MIN_SPAN_WIDTH,
               (args.regular_count + args.irregular_count - 1) * COLUMN_BASE_SPACING)
           + 2 * EDGE_MARGIN
    ELSE result.canvas_width = BASE_CANVAS_WIDTH

C5_Witness ==
  /\ Returned("build_columns")
  /\ args.regular_count = 5
  /\ args.irregular_count = 9
  /\ Len(result.columns) = 14
  /\ result.canvas_width = 546

\* C6: when build_columns returns at least one column, every returned x lies
\* in [EDGE_MARGIN, span_width + EDGE_MARGIN]; the least returned x is
\* EDGE_MARGIN and the greatest is span_width + EDGE_MARGIN, unless all the
\* placed x values were equal, and then every returned x is
\* span_width / 2 + EDGE_MARGIN.
ClaimedSpan ==
  Max(MIN_SPAN_WIDTH,
      (args.regular_count + args.irregular_count - 1) * COLUMN_BASE_SPACING)

C6_Renormalized ==
  (Returned("build_columns") /\ ~result.error /\ Len(result.columns) >= 1) =>
    LET lo == RInt(EDGE_MARGIN)
        hi == RInt(ClaimedSpan + EDGE_MARGIN)
        mid == Rat(ClaimedSpan + 2 * EDGE_MARGIN, 2)
        returned == {result.columns[i].x : i \in 1..Len(result.columns)}
    IN  /\ \A x \in returned : RLeq(lo, x) /\ RLeq(x, hi)
        /\ IF Cardinality(Range(result.xs)) = 1
           THEN returned = {mid}
           ELSE lo \in returned /\ hi \in returned

C6_Witness ==
  /\ Returned("build_columns")
  /\ args.regular_count = 1
  /\ args.irregular_count = 1
  /\ Cardinality(Range(result.xs)) = 2
  /\ RInt(0) \notin Range(result.xs)
  /\ result.columns[1].x = RInt(EDGE_MARGIN)
  /\ result.columns[2].x = RInt(ClaimedSpan + EDGE_MARGIN)

\* C7 (as claimed): for regular_count = 1 and every irregular_count >= 0 the
\* single regular column is returned at the span midpoint.
C7_Midpoint == Rat(ClaimedSpan + 2 * EDGE_MARGIN, 2)

C7_Original ==
  (Returned("build_columns") /\ ~result.error
     /\ args.regular_count = 1 /\ args.irregular_count >= 0) =>
    result.columns[1].x = C7_Midpoint

\* C7 (amended): for regular_count = 1 the single regular column is returned
\* at the span midpoint for every irregular_count >= 0 except 1; with
\* irregular_count = 1 renormalization moves it to EDGE_MARGIN.
C7_MidpointUnlessOneIrregular ==
  (Returned("build_columns") /\ ~result.error
     /\ args.regular_count = 1 /\ args.irregular_count >= 0) =>
    /\ result.xs[1] = C7_Midpoint
    /\ result.columns[1].x = (IF args.irregular_count = 1 THEN RInt(EDGE_MARGIN)
                              ELSE C7_Midpoint)

C7_Witness ==
  /\ Returned("build_columns")
  /\ args.regular_count = 1
  /\ args.irregular_count = 12
  /\ Len(result.columns) = 13
  /\ result.columns[1].x = <<252, 1>>

\* C8: with 1 <= min <= max and counts >= 0, build_columns returns exactly
\* regular_count + irregular_count columns, the regular ones first (evenly
\* placed, with the base table's timing; the irregular ones after them, with
\* perturbed timing), and every glyph list has a length in [min, max]; for
\* 12 regular, 12 irregular and min = max = 22 that is 24 columns, canvas
\* width 966 and 22 glyphs in every column.
C8_ColumnsAndLengths ==
  (Returned("build_columns")
     /\ 1 <= args.min_gps /\ args.min_gps <= args.max_gps
     /\ args.regular_count >= 0 /\ args.irregular_count >= 0) =>
    LET rc == args.regular_count
        ic == args.irregular_count
        cols == result.columns
        base(k) == InitialBaseColumns[((k - 1) % 12) + 1]
    IN  /\ ~result.error
        /\ Len(cols) = rc + ic
        /\ \A k \in 1..rc :
             /\ result.xs[k] = (IF rc = 1 THEN Rat(ClaimedSpan, 2)
                                ELSE Rat(ClaimedSpan * (k - 1), rc - 1))
             /\ cols[k].translate_dur = base(k).translate_dur
             /\ cols[k].translate_begin = base(k).translate_begin
        /\ \A j \in 1..ic :
             /\ cols[rc + j].translate_dur # base(j).translate_dur
             /\ cols[rc + j].translate_begin # base(j).translate_begin
        /\ \A k \in 1..Len(cols) :
             /\ args.min_gps <= Len(cols[k].glyphs)
             /\ Len(cols[k].glyphs) <= args.max_gps
        /\ (rc = 12 /\ ic = 12 /\ args.min_gps = 22 /\ args.max_gps = 22) =>
             /\ Len(cols) = 24
             /\ result.canvas_width = 966
             /\ \A k \in 1..24 : Len(cols[k].glyphs) = 22

C8_Witness ==
  /\ Returned("build_columns")
  /\ args.regular_count = 12
  /\ args.irregular_count = 12
  /\ args.min_gps = 22
  /\ args.max_gps = 22
  /\ Len(result.columns) = 24
  /\ result.canvas_width = 966

\* C9: build_columns is deterministic within one process: a call returns
\* what an earlier call with the same four arguments returned (x positions,
\* timing fields, glyph lists and their sampled lengths, canvas width), also
\* when min differs from max and whatever calls ran in between; and the
\* shared base table is never modified.
C9_Deterministic ==
  /\ base_columns = InitialBaseColumns
  /\ (Returned("build_columns") /\ prev # <<>> /\ prev[1].args = args) =>
       prev[1].result = result

C9_Witness ==
  /\ Returned("build_columns")
  /\ prev # <<>>
  /\ prev[1].args = args
  /\ args.min_gps < args.max_gps
  /\ args.regular_count = 2
  /\ args.irregular_count = 3
  /\ \E k \in 1..5 : Len(result.columns[k].glyphs) # Len(result.columns[1].glyphs)
  /\ prev[1].result = result

\* C10: build_svg clamps instead of failing: for all integer arguments the
\* level it uses is in 0..6, the glyph bounds passed to build_columns satisfy
\* 1 <= gps_min <= gps_max (gps_min raised to 1, gps_max raised to gps_min),
\* both column counts are >= 0 (negative ones become 0), and no error is
\* raised.
C10_ClampedNoError ==
  Returned("build_svg") =>
    LET count(arg, reached) ==
          /\ reached >= 0
          /\ arg # <<>> => reached = (IF arg[1] < 0 THEN 0 ELSE arg[1])
    IN  /\ ~result.error
        /\ 0 <= result.nice_level /\ result.nice_level <= 6
        /\ result.gps_min = (IF args.gps_min < 1 THEN 1 ELSE args.gps_min)
        /\ result.gps_max = (IF args.gps_max < result.gps_min THEN result.gps_min
                             ELSE args.gps_max)
        /\ 1 <= result.gps_min /\ result.gps_min <= result.gps_max
        /\ count(args.regular_columns, result.regular_columns)
        /\ count(args.irregular_columns, result.irregular_columns)
        /\ Len(result.columns) = result.regular_columns + result.irregular_columns
        /\ "matrixRain" \in Range(result.layers)

C10_Witness ==
  /\ Returned("build_svg")
  /\ args.nice_level = 7
  /\ args.gps_min = 1
  /\ args.gps_max = 0 - 1
  /\ args.regular_columns = <<0 - 1>>
  /\ args.irregular_columns = <<1>>
  /\ ~result.error
  /\ result.gps_max = 1
  /\ Len(result.columns) = 1

Texts(rain) == UNION {Range(rain[c].texts) : c \in DOMAIN rain}

Animated(t, tag, attributeName, type, additive) ==
  \E i \in DOMAIN t.children :
     /\ t.children[i].tag = tag
     /\ t.children[i].attributeName = attributeName
     /\ t.children[i].type = type
     /\ t.children[i].additive = additive

SizeAnimated(t) == Animated(t, "animateTransform", "transform", "scale", "sum")

JitterAnimated(t) == Animated(t, "animateTransform", "transform", "translate", "sum")

OpacityAnimated(t) == Animated(t, "animate", "opacity", "", "")

FillOpacityAnimated(t) == Animated(t, "animate", "fill-opacity", "", "")

\* C11: when build_svg is asked for a quality level >= 6, whatever the column
\* arguments and even when the overlay is requested, the document has no
\* lightning layer and every glyph carries a static opacity and a static
\* fill-opacity attribute and has no opacity, fill-opacity, size or jitter
\* animation; at every level the lightning layer is in the document exactly
\* when it was requested and the clamped level is below 6.
C11_Level6Static ==
  Returned("build_svg") =>
    /\ ("lightning" \in Range(result.layers))
         <=> (args.include_lightning /\ result.nice_level < 6)
    /\ args.nice_level >= 6 =>
         /\ "lightning" \notin Range(result.layers)
         /\ \A t \in Texts(result.rain) :
              /\ {"opacity", "fill-opacity"} \subseteq DOMAIN t.attrs
              /\ ~OpacityAnimated(t)
              /\ ~FillOpacityAnimated(t)
              /\ ~SizeAnimated(t)
              /\ ~JitterAnimated(t)

C11_Witness ==
  /\ Returned("build_svg")
  /\ args.nice_level = 7
  /\ args.include_lightning
  /\ args.regular_columns = <<>>
  /\ args.irregular_columns = <<1>>
  /\ Len(result.rain) = 13
  /\ \E t \in Texts(result.rain) :
        /\ DOMAIN t.attrs = BaseTextAttrs \cup {"opacity", "fill-opacity"}
        /\ Len(t.children) = 1
  /\ "lightning" \notin Range(result.layers)

GatedTimelines(t) ==
  [ disable_font_size_animation |-> SizeAnimated(t),
    disable_micro_jitter |-> JitterAnimated(t),
    disable_per_glyph_opacity |-> OpacityAnimated(t),
    disable_fill_opacity_pulse |-> FillOpacityAnimated(t) ]

\* C12 as stated: for every clamped level and every glyph, each of the four
\* gated timelines is emitted exactly when its flag is not disabled, and
\* each disabled one puts one static fallback attribute on the glyph in its
\* place (so the glyph has one attribute beyond the five unconditional ones
\* per disabled timeline).
C12_Original ==
  Returned("build_svg") =>
    \A t \in Texts(result.rain) :
       /\ \A f \in DOMAIN GatedTimelines(t) :
             GatedTimelines(t)[f] <=> ~result.nice_flags[f]
       /\ Cardinality(DOMAIN t.attrs \ BaseTextAttrs)
            = Cardinality({f \in DOMAIN GatedTimelines(t) : result.nice_flags[f]})

\* C12: for every clamped level and every glyph, each of the four gated
\* timelines is emitted exactly when its flag is not disabled; a static
\* opacity attribute is on the glyph exactly when the opacity pulse is
\* disabled and a static fill-opacity attribute exactly when the
\* fill-opacity pulse is disabled; a disabled size pulse or micro-jitter
\* puts nothing in its place: the glyph has no attribute beyond these two
\* and the five unconditional ones.
C12_GatedTimelines ==
  Returned("build_svg") =>
    \A t \in Texts(result.rain) :
       /\ \A f \in DOMAIN GatedTimelines(t) :
             GatedTimelines(t)[f] <=> ~result.nice_flags[f]
       /\ ("opacity" \in DOMAIN t.attrs)
            <=> result.nice_flags["disable_per_glyph_opacity"]
       /\ ("fill-opacity" \in DOMAIN t.attrs)
            <=> result.nice_flags["disable_fill_opacity_pulse"]
       /\ DOMAIN t.attrs \ {"opacity", "fill-opacity"} = BaseTextAttrs

C12_Witness ==
  /\ Returned("build_svg")
  /\ result.nice_level = 3
  /\ \E t \in Texts(result.rain) :
        /\ DOMAIN t.attrs = BaseTextAttrs \cup {"opacity"}
        /\ FillOpacityAnimated(t)
        /\ ~OpacityAnimated(t)
        /\ ~SizeAnimated(t)
        /\ ~JitterAnimated(t)
        /\ Len(t.children) = 2

\* C13: in generate_glyph_sequence with target_count > len(base), the
\* extension cycle before rotation is the 17-entry extra-glyph cycle with the
\* signature glyphs prepended: (sum)AI iff seed % 11 = 0, K2 iff
\* seed % 5 = 0, ktwo iff seed % 7 = 0 and seed % 5 # 0, K2 before (sum)AI
\* when both are there; its length is 17, 18 or 19, a seed divisible by 5
\* and by 7 never yields ktwo, and a result with at least a whole cycle of
\* appended entries holds exactly the cycle's glyphs after the base.
C13_SignatureGlyphs ==
  (Returned("generate_glyph_sequence")
     /\ args.target_count > Len(args.base_glyphs)) =>
    LET seed == args.column_seed
        E == extended_cycle(seed)
        L == Len(E)
        prefix == SubSeq(E, 1, L - 17)
        appended == SubSeq(result, Len(args.base_glyphs) + 1, Len(result))
        first == IF seed % 5 = 0 THEN << <<"K2", 22>> >>
                 ELSE IF seed % 7 = 0 THEN << <<"ktwo", 20>> >> ELSE <<>>
        second == IF seed % 11 = 0 THEN << <<"{U+2211}AI", 20>> >> ELSE <<>>
    IN  /\ Len(extra_glyph_cycle) = 17
        /\ L \in {17, 18, 19}
        /\ SubSeq(E, L - 16, L) = extra_glyph_cycle
        /\ prefix = first \o second
        /\ (<<"{U+2211}AI", 20>> \in Range(E)) <=> (seed % 11 = 0)
        /\ (<<"K2", 22>> \in Range(E)) <=> (seed % 5 = 0)
        /\ (<<"ktwo", 20>> \in Range(E)) <=> (seed % 7 = 0 /\ seed % 5 # 0)
        /\ (seed % 5 = 0 /\ seed % 11 = 0) =>
              (E[1] = <<"K2", 22>> /\ E[2] = <<"{U+2211}AI", 20>>)
        /\ (seed % 5 = 0 /\ seed % 7 = 0) =>
              <<"ktwo", 20>> \notin Range(E) \cup Range(appended)
        /\ Len(appended) >= L => Range(appended) = Range(E)

C13_Witness ==
  /\ Returned("generate_glyph_sequence")
  /\ args.column_seed = 35
  /\ args.base_glyphs = <<>>
  /\ args.target_count = 18
  /\ Len(extended_cycle(35)) = 18
  /\ <<"K2", 22>> \in Range(result)
  /\ <<"ktwo", 20>> \notin Range(result)

\* C14: in generate_glyph_sequence with target_count > len(base), for every
\* k with 0 <= k < target_count - len(base) the k-th appended entry is
\* E[((3 * seed) mod L + k) mod L] (0-based), where E is the extension cycle
\* after the signature insertions and L its length.
C14_RotatedAppend ==
  (Returned("generate_glyph_sequence")
     /\ args.target_count > Len(args.base_glyphs)) =>
    LET E == extended_cycle(args.column_seed)
        L == Len(E)
        n == Len(args.base_glyphs)
    IN  \A k \in 0..(args.target_count - n - 1) :
           result[n + k + 1] = E[(((((3 * args.column_seed) % L) + k) % L) + 1)]

C14_Witness ==
  /\ Returned("generate_glyph_sequence")
  /\ args.column_seed = 11
  /\ args.base_glyphs = <<>>
  /\ args.target_count = 22
  /\ Len(extended_cycle(11)) = 18
  /\ result[1] = extended_cycle(11)[16]
  /\ result[4] = extended_cycle(11)[1]
  /\ result[4] = <<"{U+2211}AI", 20>>
  /\ result[22] = result[4]

\* C15: for 1 <= count <= 12 the irregular index selection yields exactly
\* count indices, all in 0..11, in strictly increasing order (so pairwise
\* distinct); for count = 1 the single index 12 div 2 = 6; for count >= 2
\* both 0 and 11 are among them; and no index is moved by the
\* collision-avoidance steps: the i-th index is round(i * 11 / (count - 1)).
C15_SpreadIndices ==
  (Returned("build_columns")
     /\ 1 <= args.irregular_count /\ args.irregular_count <= 12) =>
    LET count == args.irregular_count
        indices == result.irregular_indices
    IN  /\ Len(irregular_offsets) = 12
        /\ Len(indices) = count
        /\ \A i \in 1..count : 0 <= indices[i] /\ indices[i] <= 11
        /\ \A i \in 1..(count - 1) : indices[i] < indices[i + 1]
        /\ count = 1 => indices = <<6>>
        /\ count >= 2 =>
             /\ 0 \in Range(indices) /\ 11 \in Range(indices)
             /\ \A i \in 0..(count - 1) :
                   indices[i + 1] = RoundHalfEven(i * 11, count - 1)

C15_Witness ==
  /\ Returned("build_columns")
  /\ args.irregular_count = 5
  /\ result.irregular_indices = <<0, 3, 6, 8, 11>>
  /\ Len(result.columns) = args.regular_count + 5

\* C16: for count > 12 the irregular index selection yields exactly count
\* indices, the k-th (0-based) being ((k mod 12) + 3 * (k div 12)) mod 12;
\* every complete cycle of 12 is a permutation of 0..11, and each table
\* index is used floor(count / 12) or ceil(count / 12) times.
C16_RepeatIndices ==
  (Returned("build_columns") /\ args.irregular_count > 12) =>
    LET count == args.irregular_count
        indices == result.irregular_indices
        uses(t) == Cardinality({k \in 1..Len(indices) : indices[k] = t})
    IN  /\ Len(indices) = count
        /\ \A k \in 0..(count - 1) :
              indices[k + 1] = ((k % 12) + 3 * (k \div 12)) % 12
        /\ \A c \in 0..((count \div 12) - 1) :
              {indices[12 * c + p] : p \in 1..12} = 0..11
        /\ \A t \in 0..11 : uses(t) \in {count \div 12, (count + 11) \div 12}

C16_Witness ==
  /\ Returned("build_columns")
  /\ args.irregular_count = 26
  /\ Len(result.irregular_indices) = 26
  /\ result.irregular_indices[12] = 11
  /\ result.irregular_indices[13] = 3
  /\ result.irregular_indices[24] = 2
  /\ result.irregular_indices[25] = 6
  /\ result.irregular_indices[26] = 7

\* C17: in one build_columns call the seed handed to the glyph generator is
\* k for the k-th regular column and regular_count + j for the j-th
\* irregular column, so the seeds are pairwise distinct and each is its
\* column's index in the returned list; the j-th irregular column is copied
\* from base_columns[j mod 12], whatever its seed, and each returned column
\* holds the glyphs the generator yields for its seed and its template.
C17_SeedsAndTemplates ==
  (Returned("build_columns") /\ ~result.error) =>
    LET regular_count == args.regular_count
        irregular_count == args.irregular_count
        seeds == result.seeds
        templates == result.templates
        columns == result.columns
    IN  /\ Len(seeds) = regular_count + irregular_count
        /\ Len(columns) = Len(seeds)
        /\ Len(templates) = Len(seeds)
        /\ \A k \in 0..(regular_count - 1) : seeds[k + 1] = k
        /\ \A j \in 0..(irregular_count - 1) :
              /\ seeds[regular_count + j + 1] = regular_count + j
              /\ templates[regular_count + j + 1] = j % 12
        /\ \A a, b \in 1..Len(seeds) : a # b => seeds[a] # seeds[b]
        /\ \A i \in 1..Len(seeds) :
              /\ seeds[i] = i - 1
              /\ columns[i].translate_values
                   = base_columns[templates[i] + 1].translate_values
              /\ columns[i].opacity_values
                   = base_columns[templates[i] + 1].opacity_values
              /\ columns[i].glyphs
                   = generate_glyph_sequence(i - 1,
                                             base_columns[templates[i] + 1].glyphs,
                                             Len(columns[i].glyphs))

C17_Witness ==
  /\ Returned("build_columns")
  /\ args.min_gps = 22
  /\ args.regular_count = 5
  /\ args.irregular_count = 14
  /\ Len(result.columns) = 19
  /\ result.seeds[5] = 4
  /\ result.seeds[6] = 5
  /\ result.templates[6] = 0
  /\ result.seeds[19] = 18
  /\ result.templates[19] = 1
  /\ Len(result.columns[19].glyphs) >= 22

Moved == \E i \in 1..Len(result.columns) :
            result.columns[i].x # RAdd(result.xs[i], RInt(EDGE_MARGIN))

PlacedOnSpan ==
  /\ RMinOf(result.xs) = RInt(0)
  /\ RMaxOf(result.xs) = RInt(ClaimedSpan)

====
